---- MODULE Spec2Model ----
(***************************************************************************)
(* A model of fractalos' main.cpp: start-up, the frame loop (input poll,   *)
(* auto-rotation, UI, clamp, orbital camera basis, uniform upload, draw,   *)
(* swap) and clean-up.                                                     *)
(*                                                                         *)
(* Numbers.  Floats are modelled in fixed point:                           *)
(*   - angles (camYaw, camPitch) in tenths of a radian,                    *)
(*   - camDistance, fov, rotationSpeed, colour channels in tenths,         *)
(*   - time in whole seconds, so time * rotationSpeed is in tenths of a    *)
(*     radian, like camYaw,                                                *)
(*   - epsilon in 1/10000,                                                 *)
(*   - vector components in 1/Unit (Unit = 1000).                          *)
(***************************************************************************)
EXTENDS Integers, Sequences, FiniteSets, TLC

VARIABLES
    pc,          \* position of main()
    live,        \* platform / GPU resources currently allocated
    diag,        \* the diagnostics written to std::cerr, in order
    exitCode,    \* -1 while running, else the value main() returned
    clock,       \* glfwGetTime(), in seconds
    escDown,     \* cached state of GLFW_KEY_ESCAPE
    shouldClose, \* the window's close flag
    settings,    \* RenderSettings settings
    time,        \* local `time` of the current frame
    uiEdit,      \* the widget the UI step of the current frame changed
    basis,       \* locals camPos, forward, right, up
    fbSize,      \* locals width, height
    uniforms,    \* uniform values held by the GPU program
    sent,        \* uniforms uploaded since the current frame began
    frameLog,    \* the steps the current frame has executed, in order
    frames,      \* loop iterations begun
    draws,       \* glDrawArrays calls issued
    swaps        \* glfwSwapBuffers calls issued

vars == <<pc, live, diag, exitCode, clock, escDown, shouldClose, settings,
          time, uiEdit, basis, fbSize, uniforms, sent, frameLog, frames,
          draws, swaps>>

----------------------------------------------------------------------------
(* Bounds of the model *)

\* the frame loop is explored while glfwGetTime() <= MaxTime
MaxTime == 2

----------------------------------------------------------------------------
(* Fixed-point arithmetic standing for float *)

Unit == 1000

Abs(x) == IF x < 0 THEN -x ELSE x

\* truncating division, as rounding toward zero
TDiv(a, b) == IF (a < 0) = (b < 0) THEN Abs(a) \div Abs(b) ELSE -(Abs(a) \div Abs(b))

\* a * b of two fixed-point numbers
Mul(a, b) == TDiv(a * b, Unit)

RECURSIVE SqrtSearch(_, _, _)
SqrtSearch(n, lo, hi) ==
    IF lo >= hi THEN lo
    ELSE LET mid == (lo + hi + 1) \div 2
         IN  IF mid * mid <= n THEN SqrtSearch(n, mid, hi)
                               ELSE SqrtSearch(n, lo, mid - 1)

\* std::sqrt of a non-negative number: the largest r with r * r <= n
Sqrt(n) == SqrtSearch(n, 0, IF n > 46340 THEN 46340 ELSE n)

\* std::cos and std::sin of k tenths of a radian, k in 0..63, in 1/Unit
CosTable ==
    <<1000, 995, 980, 955, 921, 878, 825, 765, 697, 622, 540, 454, 362, 267,
      170, 71, -29, -129, -227, -323, -416, -505, -589, -666, -737, -801,
      -857, -904, -942, -971, -990, -999, -998, -987, -967, -936, -897, -848,
      -791, -726, -654, -575, -490, -401, -307, -211, -112, -12, 87, 187, 284,
      378, 469, 554, 635, 709, 776, 835, 886, 927, 960, 983, 997, 1000>>

SinTable ==
    <<0, 100, 199, 296, 389, 479, 565, 644, 717, 783, 841, 891, 932, 964, 985,
      997, 1000, 992, 974, 946, 909, 863, 808, 746, 675, 598, 516, 427, 335,
      239, 141, 42, -58, -158, -256, -351, -443, -530, -612, -688, -757, -818,
      -872, -916, -952, -978, -994, -1000, -996, -982, -959, -926, -883, -832,
      -773, -706, -631, -551, -465, -374, -279, -182, -83, 17>>

\* angles past the table are reduced by a whole turn (63 tenths ~ 2 pi)
Cos(a) == CosTable[(Abs(a) % 63) + 1]

Sin(a) == IF a < 0 THEN -SinTable[(Abs(a) % 63) + 1] ELSE SinTable[(a % 63) + 1]

----------------------------------------------------------------------------
(* Vec3 helpers *)

make_vec3(x, y, z) == <<x, y, z>>

ZeroVec == make_vec3(0, 0, 0)

sub(a, b) == <<a[1] - b[1], a[2] - b[2], a[3] - b[3]>>

cross(a, b) ==
    << Mul(a[2], b[3]) - Mul(a[3], b[2]),
       Mul(a[3], b[1]) - Mul(a[1], b[3]),
       Mul(a[1], b[2]) - Mul(a[2], b[1]) >>

\* as normalize_vec3, but a zero-length vector is replaced by a unit axis
normalize_fallback(v) ==
    LET len == Sqrt(v[1] * v[1] + v[2] * v[2] + v[3] * v[3])
    IN  IF len <= 0 THEN <<Unit, 0, 0>>
        ELSE <<TDiv(v[1] * Unit, len), TDiv(v[2] * Unit, len), TDiv(v[3] * Unit, len)>>

normalize_vec3(v) ==
    LET len == Sqrt(v[1] * v[1] + v[2] * v[2] + v[3] * v[3])
    IN  IF len <= 0 THEN ZeroVec
        ELSE <<TDiv(v[1] * Unit, len), TDiv(v[2] * Unit, len), TDiv(v[3] * Unit, len)>>

----------------------------------------------------------------------------
(* RenderSettings *)

DefaultSettings ==
    [ camDistance   |-> 40,
      camYaw        |-> 0,
      camPitch      |-> 4,
      fov           |-> 10,
      autoRotate    |-> TRUE,
      rotationSpeed |-> 2,
      power         |-> 80,
      maxIterations |-> 18,
      bailout       |-> 20,
      maxSteps      |-> 200,
      maxDist       |-> 250,
      epsilon       |-> 10,
      enableAO      |-> TRUE,
      enableShadows |-> TRUE,
      colorA        |-> <<2, 3, 6>>,
      colorB        |-> <<8, 9, 10>> ]

CameraFields == {"camDistance", "camYaw", "camPitch", "fov", "autoRotate", "rotationSpeed"}

OtherFields == DOMAIN DefaultSettings \ CameraFields

----------------------------------------------------------------------------
(* The UI step: the widgets of the "Mandelbulb Controls" window.  One      *)
(* widget at most is active in a frame.  A slider dragged stays in its     *)
(* range; a value typed into it (Ctrl+click) need not.                     *)

SliderInputs ==
    [ camDistance   |-> {2, 120},
      camYaw        |-> {15},
      camPitch      |-> {-20, 0, 20},
      fov           |-> {20},
      rotationSpeed |-> {10},
      power         |-> {160},
      maxIterations |-> {64},
      bailout       |-> {60},
      maxSteps      |-> {512},
      maxDist       |-> {600},
      epsilon       |-> {100},
      colorA        |-> {<<10, 0, 0>>},
      colorB        |-> {<<0, 0, 0>>} ]

Checkboxes == {"autoRotate", "enableAO", "enableShadows"}

Buttons == {"resetCamera", "resetEverything"}

Widgets == {"none"} \cup DOMAIN SliderInputs \cup Checkboxes \cup Buttons

\* the values a widget can hand to the field it is bound to
InputsOf(w) == IF w \in DOMAIN SliderInputs THEN SliderInputs[w] ELSE {0}

\* the "Reset camera" button
ResetCamera(s) ==
    [s EXCEPT !.camDistance = 40, !.camYaw = 0, !.camPitch = 4, !.fov = 10]

\* as ResetEverything, but the colours are left as they are
ResetKeepColors(s) ==
    [DefaultSettings EXCEPT !.colorA = s.colorA, !.colorB = s.colorB]

\* the "Reset everything" button: settings = RenderSettings()
ResetEverything(s) == DefaultSettings

\* lines 285-330: what one frame's widgets do to settings
ApplyEdit(s, w, v) ==
    IF w = "none" THEN s
    ELSE IF w \in Checkboxes THEN [s EXCEPT ![w] = ~s[w]]
    ELSE IF w = "resetCamera" THEN ResetCamera(s)
    ELSE IF w = "resetEverything" THEN ResetEverything(s)
    ELSE [s EXCEPT ![w] = v]

----------------------------------------------------------------------------
(* The frame synchroniser's pure parts *)

PitchMin == -15
PitchMax == 15
DistMin == 5

\* as AutoRotate, but integrating the speed frame by frame
AutoRotateAccumulate(s, t) ==
    IF s.autoRotate THEN [s EXCEPT !.camYaw = s.camYaw + s.rotationSpeed] ELSE s

\* lines 275-277
AutoRotate(s, t) ==
    IF s.autoRotate THEN [s EXCEPT !.camYaw = t * s.rotationSpeed] ELSE s

\* as Clamp, but the pitch is left alone
ClampDistanceOnly(s) ==
    [s EXCEPT !.camDistance = IF s.camDistance < DistMin THEN DistMin ELSE s.camDistance]

\* lines 333-334: std::clamp on the pitch, std::max on the distance
Clamp(s) ==
    [s EXCEPT
       !.camPitch = IF s.camPitch < PitchMin THEN PitchMin
                    ELSE IF PitchMax < s.camPitch THEN PitchMax ELSE s.camPitch,
       !.camDistance = IF s.camDistance < DistMin THEN DistMin ELSE s.camDistance]

\* lines 336-345: the camera position on the orbit
CameraPos(d, yaw, pitch) ==
    LET cp == Cos(pitch)
        sp == Sin(pitch)
        cy == Cos(yaw)
        sy == Sin(yaw)
        dist == d * (Unit \div 10)
    IN  <<Mul(Mul(dist, cp), cy), Mul(dist, sp), Mul(Mul(dist, cp), sy)>>

WorldUp == make_vec3(0, Unit, 0)

\* as BasisFrom, with the operands of the first cross product exchanged
BasisFromSwapped(camPos) ==
    LET forward == normalize_vec3(sub(ZeroVec, camPos))
        right   == normalize_vec3(cross(WorldUp, forward))
        up      == cross(right, forward)
    IN  [pos |-> camPos, forward |-> forward, right |-> right, up |-> up]

\* lines 346-351: forward, right and up of a camera at camPos
BasisFrom(camPos) ==
    LET forward == normalize_vec3(sub(ZeroVec, camPos))
        right   == normalize_vec3(cross(forward, WorldUp))
        up      == cross(right, forward)
    IN  [pos |-> camPos, forward |-> forward, right |-> right, up |-> up]

CameraBasis(d, yaw, pitch) == BasisFrom(CameraPos(d, yaw, pitch))

ZeroBasis == [pos |-> ZeroVec, forward |-> ZeroVec, right |-> ZeroVec, up |-> ZeroVec]

Bit(b) == IF b THEN 1 ELSE 0

\* as Snapshot, but the camera position is the one of the default settings
SnapshotStalePos(t, size, b, s) ==
    [ u_time |-> t, u_resolution |-> size,
      u_camPos |-> CameraPos(40, 0, 4), u_camForward |-> b.forward,
      u_camRight |-> b.right, u_camUp |-> b.up, u_fov |-> s.fov,
      u_power |-> s.power, u_maxIter |-> s.maxIterations, u_bailout |-> s.bailout,
      u_maxSteps |-> s.maxSteps, u_maxDist |-> s.maxDist, u_epsilon |-> s.epsilon,
      u_colorA |-> s.colorA, u_colorB |-> s.colorB,
      u_enableAO |-> Bit(s.enableAO), u_enableShadows |-> Bit(s.enableShadows) ]

\* lines 362-382: the values the glUniform calls upload
Snapshot(t, size, b, s) ==
    [ u_time |-> t, u_resolution |-> size,
      u_camPos |-> b.pos, u_camForward |-> b.forward,
      u_camRight |-> b.right, u_camUp |-> b.up, u_fov |-> s.fov,
      u_power |-> s.power, u_maxIter |-> s.maxIterations, u_bailout |-> s.bailout,
      u_maxSteps |-> s.maxSteps, u_maxDist |-> s.maxDist, u_epsilon |-> s.epsilon,
      u_colorA |-> s.colorA, u_colorB |-> s.colorB,
      u_enableAO |-> Bit(s.enableAO), u_enableShadows |-> Bit(s.enableShadows) ]

\* the values of a freshly linked program's uniforms
InitialUniforms == Snapshot(0, <<0, 0>>, ZeroBasis, [f \in DOMAIN DefaultSettings |->
                       IF f \in {"colorA", "colorB"} THEN ZeroVec
                       ELSE IF f \in {"enableAO", "enableShadows", "autoRotate"} THEN FALSE ELSE 0])

----------------------------------------------------------------------------
(* Initial state: main() is entered *)

FrameSteps == <<"poll", "escape", "autorotate", "ui", "clamp", "basis", "size",
                "transmit", "draw", "swap">>

StartupSteps == <<"glfwInit", "createWindow", "glewInit", "readVS", "readFS",
                  "compileVS", "compileFS", "link", "setup">>

\* the size glfwGetFramebufferSize reports (the window is created 1280 x 720)
FramebufferSizes == {<<1280, 720>>}

\* seconds the clock may advance by from one frame to the next
ClockSteps == {1, 2}

Init ==
    /\ pc = "glfwInit"
    /\ live = {}
    /\ diag = <<>>
    /\ exitCode = -1
    /\ clock = 0
    /\ escDown = FALSE
    /\ shouldClose = FALSE
    /\ settings = DefaultSettings
    /\ time = 0
    /\ uiEdit = "none"
    /\ basis = ZeroBasis
    /\ fbSize = <<0, 0>>
    /\ uniforms = InitialUniforms
    /\ sent = {}
    /\ frameLog = <<>>
    /\ frames = 0
    /\ draws = 0
    /\ swaps = 0

frameVars == <<clock, escDown, shouldClose, settings, time, uiEdit, basis, fbSize,
               uniforms, sent, frameLog, frames, draws, swaps>>

----------------------------------------------------------------------------
(* Start-up, lines 146-264 *)

\* as AfterStep, but a failed step is tried again
AfterStepRetry(step, ok) ==
    IF ~ok THEN step
    ELSE IF step = "setup" THEN "loop"
    ELSE StartupSteps[1 + CHOOSE i \in 1..Len(StartupSteps) : StartupSteps[i] = step]

\* where main() goes after a start-up step: on, or out through return 1
AfterStep(step, ok) ==
    IF ~ok THEN "done"
    ELSE IF step = "setup" THEN "loop"
    ELSE StartupSteps[1 + CHOOSE i \in 1..Len(StartupSteps) : StartupSteps[i] = step]

\* the message each start-up step writes when it fails
Diagnostic ==
    [ glfwInit     |-> "Failed to initialize GLFW",
      createWindow |-> "Failed to create GLFW window",
      glewInit     |-> "Failed to initialize GLEW",
      readVS       |-> "Exception while creating program",
      readFS       |-> "Exception while creating program",
      compileVS    |-> "Error compiling VERTEX shader",
      compileFS    |-> "Error compiling FRAGMENT shader",
      link         |-> "Error linking shader program" ]

\* a start-up step that failed: its diagnostic, the resources released, return 1
Fail(step, released) ==
    /\ diag' = Append(diag, Diagnostic[step])
    /\ live' = live \ released
    /\ exitCode' = 1
    /\ pc' = AfterStep(step, FALSE)

Proceed(step, acquired) ==
    /\ pc' = AfterStep(step, TRUE)
    /\ live' = live \cup acquired
    /\ UNCHANGED <<diag, exitCode>>

GlfwInit ==
    /\ pc = "glfwInit"
    /\ \E ok \in BOOLEAN : IF ok THEN Proceed("glfwInit", {"glfw"}) ELSE Fail("glfwInit", {})
    /\ UNCHANGED frameVars

CreateWindow ==
    /\ pc = "createWindow"
    /\ \E ok \in BOOLEAN : IF ok THEN Proceed("createWindow", {"window"}) ELSE Fail("createWindow", {"glfw"})
    /\ UNCHANGED frameVars

GlewInit ==
    /\ pc = "glewInit"
    /\ \E ok \in BOOLEAN : IF ok THEN Proceed("glewInit", {}) ELSE Fail("glewInit", {"window", "glfw"})
    /\ UNCHANGED frameVars

\* readFile(vsPath); a failure throws, and main() catches it
ReadVS ==
    /\ pc = "readVS"
    /\ \E ok \in BOOLEAN : IF ok THEN Proceed("readVS", {}) ELSE Fail("readVS", {"window", "glfw"})
    /\ UNCHANGED frameVars

ReadFS ==
    /\ pc = "readFS"
    /\ \E ok \in BOOLEAN : IF ok THEN Proceed("readFS", {}) ELSE Fail("readFS", {"window", "glfw"})
    /\ UNCHANGED frameVars

CompileVS ==
    /\ pc = "compileVS"
    /\ \E ok \in BOOLEAN : IF ok THEN Proceed("compileVS", {"vs"}) ELSE Fail("compileVS", {"window", "glfw"})
    /\ UNCHANGED frameVars

CompileFS ==
    /\ pc = "compileFS"
    /\ \E ok \in BOOLEAN : IF ok THEN Proceed("compileFS", {"fs"}) ELSE Fail("compileFS", {"vs", "window", "glfw"})
    /\ UNCHANGED frameVars

\* glLinkProgram; the two shaders are deleted whatever the outcome
Link ==
    /\ pc = "link"
    /\ \E ok \in BOOLEAN :
          IF ok THEN /\ pc' = AfterStep("link", TRUE)
                     /\ live' = (live \ {"vs", "fs"}) \cup {"program"}
                     /\ UNCHANGED <<diag, exitCode>>
                ELSE Fail("link", {"vs", "fs", "window", "glfw"})
    /\ UNCHANGED frameVars

\* the quad, the uniform locations, ImGui, and RenderSettings settings
Setup ==
    /\ pc = "setup"
    /\ live' = live \cup {"vao", "vbo", "imgui"}
    /\ settings' = DefaultSettings
    /\ pc' = AfterStep("setup", TRUE)
    /\ UNCHANGED <<diag, exitCode, clock, escDown, shouldClose, time, uiEdit, basis,
                   fbSize, uniforms, sent, frameLog, frames, draws, swaps>>

----------------------------------------------------------------------------
(* The frame loop, lines 267-394 *)

\* as NextStep, but with the UI step ahead of the auto-rotation
NextStepUIFirst(name) ==
    CASE name = "escape" -> "ui"
      [] name = "ui" -> "autorotate"
      [] name = "autorotate" -> "clamp"
      [] name = "swap" -> "loop"
      [] OTHER -> FrameSteps[1 + CHOOSE i \in 1..Len(FrameSteps) : FrameSteps[i] = name]

\* the statement that follows a step of the loop body; the loop's condition
\* follows the last
NextStep(name) ==
    IF name = "swap" THEN "loop"
    ELSE FrameSteps[1 + CHOOSE i \in 1..Len(FrameSteps) : FrameSteps[i] = name]

Step(name) ==
    /\ pc = name
    /\ pc' = NextStep(name)
    /\ frameLog' = Append(frameLog, name)

\* while (!glfwWindowShouldClose(window)): the body is entered
LoopEnter ==
    /\ pc = "loop"
    /\ ~shouldClose
    /\ clock <= MaxTime
    /\ pc' = "poll"
    /\ frames' = frames + 1
    /\ frameLog' = <<>>
    /\ sent' = {}
    /\ uiEdit' = "none"
    /\ UNCHANGED <<live, diag, exitCode, clock, escDown, shouldClose, settings, time,
                   basis, fbSize, uniforms, draws, swaps>>

\* while (!glfwWindowShouldClose(window)): the loop is left
LoopExit ==
    /\ pc = "loop"
    /\ shouldClose
    /\ pc' = "cleanup"
    /\ UNCHANGED <<live, diag, exitCode, frameVars>>

\* glfwPollEvents: a window-close event sets the flag; the key state is refreshed
PollEvents ==
    /\ Step("poll")
    /\ \E closeEvent \in BOOLEAN : shouldClose' = (shouldClose \/ closeEvent)
    /\ escDown' \in BOOLEAN
    /\ UNCHANGED <<live, diag, exitCode, clock, settings, time, uiEdit, basis, fbSize,
                   uniforms, sent, frames, draws, swaps>>

\* lines 270-272
EscapeKey ==
    /\ Step("escape")
    /\ shouldClose' = (shouldClose \/ escDown)
    /\ UNCHANGED <<live, diag, exitCode, clock, escDown, settings, time, uiEdit, basis,
                   fbSize, uniforms, sent, frames, draws, swaps>>

\* lines 274-277
AutoRotateStep ==
    /\ Step("autorotate")
    /\ time' = clock
    /\ settings' = AutoRotate(settings, clock)
    /\ UNCHANGED <<live, diag, exitCode, clock, escDown, shouldClose, uiEdit, basis,
                   fbSize, uniforms, sent, frames, draws, swaps>>

\* lines 280-330
UIStep ==
    /\ Step("ui")
    /\ \E w \in Widgets : \E v \in InputsOf(w) :
          /\ settings' = ApplyEdit(settings, w, v)
          /\ uiEdit' = w
    /\ UNCHANGED <<live, diag, exitCode, clock, escDown, shouldClose, time, basis,
                   fbSize, uniforms, sent, frames, draws, swaps>>

\* lines 333-334
ClampStep ==
    /\ Step("clamp")
    /\ settings' = Clamp(settings)
    /\ UNCHANGED <<live, diag, exitCode, clock, escDown, shouldClose, time, uiEdit,
                   basis, fbSize, uniforms, sent, frames, draws, swaps>>

\* lines 336-351
BasisStep ==
    /\ Step("basis")
    /\ basis' = CameraBasis(settings.camDistance, settings.camYaw, settings.camPitch)
    /\ UNCHANGED <<live, diag, exitCode, clock, escDown, shouldClose, settings, time,
                   uiEdit, fbSize, uniforms, sent, frames, draws, swaps>>

\* lines 354-359
SizeStep ==
    /\ Step("size")
    /\ fbSize' \in FramebufferSizes
    /\ UNCHANGED <<live, diag, exitCode, clock, escDown, shouldClose, settings, time,
                   uiEdit, basis, uniforms, sent, frames, draws, swaps>>

\* lines 361-382
TransmitStep ==
    /\ Step("transmit")
    /\ uniforms' = Snapshot(time, fbSize, basis, settings)
    /\ sent' = DOMAIN uniforms'
    /\ UNCHANGED <<live, diag, exitCode, clock, escDown, shouldClose, settings, time,
                   uiEdit, basis, fbSize, frames, draws, swaps>>

\* lines 384-387
DrawStep ==
    /\ Step("draw")
    /\ draws' = draws + 1
    /\ UNCHANGED <<live, diag, exitCode, clock, escDown, shouldClose, settings, time,
                   uiEdit, basis, fbSize, uniforms, sent, frames, swaps>>

\* lines 390-394: the UI is drawn, the buffers are swapped (vsync), and the
\* locals of the body go out of scope
SwapStep ==
    /\ Step("swap")
    /\ swaps' = swaps + 1
    /\ \E dt \in ClockSteps : clock' = clock + dt
    /\ basis' = ZeroBasis
    /\ fbSize' = <<0, 0>>
    /\ UNCHANGED <<live, diag, exitCode, escDown, shouldClose, settings, time, uiEdit,
                   uniforms, sent, frames, draws>>

----------------------------------------------------------------------------
(* Clean-up, lines 397-407 *)

AllResources == {"glfw", "window", "program", "vao", "vbo", "imgui"}

\* as Released, but the shader program is kept
ReleasedKeepProgram(held) == held \ {"imgui", "vbo", "vao", "window", "glfw"}

\* lines 397-406: what is left of the resources held
Released(held) == held \ {"imgui", "vbo", "vao", "program", "window", "glfw"}

Cleanup ==
    /\ pc = "cleanup"
    /\ live' = Released(live)
    /\ pc' = "return"
    /\ UNCHANGED <<diag, exitCode, frameVars>>

\* line 407
ReturnSuccess ==
    /\ pc = "return"
    /\ exitCode' = 0
    /\ pc' = "done"
    /\ UNCHANGED <<live, diag, frameVars>>

----------------------------------------------------------------------------

Next ==
    \/ GlfwInit \/ CreateWindow \/ GlewInit \/ ReadVS \/ ReadFS
    \/ CompileVS \/ CompileFS \/ Link \/ Setup
    \/ LoopEnter \/ LoopExit
    \/ PollEvents \/ EscapeKey \/ AutoRotateStep \/ UIStep \/ ClampStep
    \/ BasisStep \/ SizeStep \/ TransmitStep \/ DrawStep \/ SwapStep
    \/ Cleanup \/ ReturnSuccess

Spec == Init /\ [][Next]_vars

----------------------------------------------------------------------------
(* The camera builder on its own: lines 346-351 applied to any camera      *)
(* position, followed by the rest of the frame.                            *)

BuilderCoordinates == {-4000, -500, 0, 500, 4000}

InitBuilder ==
    /\ pc = "builder"
    /\ live = AllResources
    /\ diag = <<>>
    /\ exitCode = -1
    /\ clock = 0
    /\ escDown = FALSE
    /\ shouldClose = FALSE
    /\ settings = DefaultSettings
    /\ time = 0
    /\ uiEdit = "none"
    /\ \E x \in BuilderCoordinates, y \in BuilderCoordinates, z \in BuilderCoordinates :
          basis = [ZeroBasis EXCEPT !.pos = make_vec3(x, y, z)]
    /\ fbSize = <<0, 0>>
    /\ uniforms = InitialUniforms
    /\ sent = {}
    /\ frameLog = <<"poll", "escape", "autorotate", "ui", "clamp">>
    /\ frames = 1
    /\ draws = 0
    /\ swaps = 0

BuilderStep ==
    /\ pc = "builder"
    /\ basis' = BasisFrom(basis.pos)
    /\ pc' = NextStep("basis")
    /\ frameLog' = Append(frameLog, "basis")
    /\ UNCHANGED <<live, diag, exitCode, clock, escDown, shouldClose, settings, time,
                   uiEdit, fbSize, uniforms, sent, frames, draws, swaps>>

NextBuilder == BuilderStep \/ SizeStep \/ TransmitStep \/ DrawStep

SpecBuilder == InitBuilder /\ [][NextBuilder]_vars

----------------------------------------------------------------------------
(* Properties *)

Dot(a, b) == Mul(a[1], b[1]) + Mul(a[2], b[2]) + Mul(a[3], b[3])

\* the frame has uploaded its uniforms
Transmitted == pc \in {"draw", "swap"}

\* the frame has built its camera basis, and the locals still hold it
Built == pc \in {"size", "transmit", "draw", "swap"}

\* the widgets that write autoRotate, camYaw or rotationSpeed
YawWidgets == {"autoRotate", "camYaw", "rotationSpeed", "resetCamera", "resetEverything"}

\* C1, as stated: in every frame in which autoRotate is set, the camYaw behind
\* the transmitted camera basis is time * rotationSpeed, for the frame's time
\* and the rotationSpeed of the transmitted settings.
C1_YawIsTimeTimesSpeed ==
    (Transmitted /\ settings.autoRotate) =>
        /\ settings.camYaw = time * settings.rotationSpeed
        /\ uniforms.u_camPos =
             CameraPos(settings.camDistance, time * settings.rotationSpeed, settings.camPitch)

\* C1, amended: the auto-rotation step, which runs before the UI step, sets
\* camYaw to time * rotationSpeed whenever autoRotate is set at that point, a
\* function of the frame's time alone; and in every frame in which autoRotate
\* is set and the UI step wrote none of autoRotate, camYaw and rotationSpeed,
\* that is the camYaw behind the transmitted camera basis.
C1_YawIsTimeTimesSpeedUnlessEdited ==
    /\ (pc = "ui" /\ settings.autoRotate) =>
            settings.camYaw = time * settings.rotationSpeed
    /\ (Transmitted /\ settings.autoRotate /\ uiEdit \notin YawWidgets) =>
            /\ settings.camYaw = time * settings.rotationSpeed
            /\ uniforms.u_camPos =
                 CameraPos(settings.camDistance, time * settings.rotationSpeed, settings.camPitch)
            /\ uniforms.u_time = time

\* the third frame, two seconds in, auto-rotating at a speed set in an
\* earlier frame
C1_Witness ==
    /\ pc = "draw"
    /\ frames = 3
    /\ time = 2
    /\ settings.autoRotate
    /\ uiEdit = "none"
    /\ settings.rotationSpeed = 10
    /\ settings.camYaw = 20

SynchronizerSteps == {"autorotate", "clamp", "basis", "size", "transmit"}

\* C2, as stated: the UI step of a frame comes before every step of the frame
\* synchroniser, the auto-rotation overwrite included.
C2_UIBeforeSynchronizer ==
    \A i \in DOMAIN frameLog : \A j \in DOMAIN frameLog :
        (frameLog[i] = "ui" /\ frameLog[j] \in SynchronizerSteps) => i < j

CodeOrder == <<"poll", "escape", "autorotate", "ui", "clamp", "basis", "size",
               "transmit", "draw", "swap">>

\* C2, amended: the steps of a frame run in this order, once each: poll,
\* escape-key check, time sample and auto-rotation overwrite, UI, clamp,
\* camera basis, framebuffer size, uniform upload, draw, swap; the UI step
\* follows the auto-rotation and precedes every other synchroniser step, and
\* no field of settings changes from the end of the clamp to the end of the frame.
C2_FrameOrder ==
    [][ /\ Len(frameLog') <= Len(CodeOrder)
        /\ \A i \in DOMAIN frameLog' : frameLog'[i] = CodeOrder[i]
        /\ (pc \in {"basis", "size", "transmit", "draw", "swap"}) => settings' = settings
        /\ (pc' = "loop" /\ pc = "swap") => frameLog' = CodeOrder
      ]_vars

\* a frame that ran to its end, with a widget edited in it
C2_Witness ==
    /\ pc = "loop"
    /\ frameLog = CodeOrder
    /\ uiEdit = "camPitch"
    /\ swaps = 2

\* C3: whatever the UI or a reset wrote, the pitch the camera builder reads is
\* in [-1.5, 1.5] and the distance at least 0.5, and the camera position
\* built and uploaded is the one of those clamped values.
C3_ClampedBeforeUse ==
    /\ (pc = "basis" \/ Built) =>
            /\ -15 <= settings.camPitch /\ settings.camPitch <= 15
            /\ settings.camDistance >= 5
    /\ Built =>
            basis.pos = CameraPos(settings.camDistance, settings.camYaw, settings.camPitch)
    /\ Transmitted => uniforms.u_camPos = basis.pos

\* the Pitch widget was given 2.0 in this frame, and 1.5 is what was uploaded
C3_Witness ==
    /\ pc = "draw"
    /\ uiEdit = "camPitch"
    /\ settings.camPitch = 15
    /\ uniforms.u_camPos = CameraPos(settings.camDistance, settings.camYaw, 15)

\* C4: from the "Reset everything" button to the end of its frame, every
\* field of settings has its default, also after the clamp, and the uniforms
\* uploaded are those of the defaults.
C4_ResetEverythingRestoresDefaults ==
    /\ uiEdit = "resetEverything" => settings = DefaultSettings
    /\ (uiEdit = "resetEverything" /\ Transmitted) =>
            /\ uniforms.u_camPos = CameraPos(40, 0, 4)
            /\ uniforms.u_fov = 10 /\ uniforms.u_power = 80
            /\ uniforms.u_maxIter = 18 /\ uniforms.u_bailout = 20
            /\ uniforms.u_maxSteps = 200 /\ uniforms.u_maxDist = 250
            /\ uniforms.u_epsilon = 10
            /\ uniforms.u_colorA = <<2, 3, 6>> /\ uniforms.u_colorB = <<8, 9, 10>>
            /\ uniforms.u_enableAO = 1 /\ uniforms.u_enableShadows = 1

\* the reset follows frames that changed a colour and the auto-rotation
C4_Witness ==
    /\ pc = "clamp"
    /\ uiEdit = "resetEverything"
    /\ frames = 3
    /\ uniforms.u_colorA = <<10, 0, 0>>
    /\ uniforms.u_camPos # CameraPos(40, 0, 4)

\* C5: the "Reset camera" button restores camDistance, camYaw, camPitch, fov,
\* autoRotate and rotationSpeed to their defaults and leaves every other field
\* as it was.
C5_ResetCameraRestoresCameraGroup ==
    [][ (pc = "ui" /\ uiEdit' = "resetCamera") =>
            /\ \A f \in CameraFields : settings'[f] = DefaultSettings[f]
            /\ \A f \in OtherFields : settings'[f] = settings[f]
      ]_vars

ProtocolNames ==
    {"u_time", "u_resolution", "u_camPos", "u_camForward", "u_camRight", "u_camUp",
     "u_fov", "u_power", "u_maxIter", "u_bailout", "u_maxSteps", "u_maxDist",
     "u_epsilon", "u_colorA", "u_colorB", "u_enableAO", "u_enableShadows"}

\* C6: the locals camPos, forward, right and up are the basis of the
\* camDistance, camYaw and camPitch that settings holds from the basis step to
\* the end of the frame; what the frame uploads is that basis, the frame's
\* time and size, and the fields of settings as they are at the upload; and
\* every uniform of the protocol is uploaded before the draw call.
C6_SnapshotConsistent ==
    /\ Built =>
            basis = CameraBasis(settings.camDistance, settings.camYaw, settings.camPitch)
    /\ Transmitted =>
            /\ sent = ProtocolNames
            /\ uniforms.u_time = time
            /\ uniforms.u_resolution = fbSize
            /\ uniforms.u_camPos = basis.pos
            /\ uniforms.u_camForward = basis.forward
            /\ uniforms.u_camRight = basis.right
            /\ uniforms.u_camUp = basis.up
            /\ uniforms.u_fov = settings.fov
            /\ uniforms.u_power = settings.power
            /\ uniforms.u_maxIter = settings.maxIterations
            /\ uniforms.u_bailout = settings.bailout
            /\ uniforms.u_maxSteps = settings.maxSteps
            /\ uniforms.u_maxDist = settings.maxDist
            /\ uniforms.u_epsilon = settings.epsilon
            /\ uniforms.u_colorA = settings.colorA
            /\ uniforms.u_colorB = settings.colorB
            /\ uniforms.u_enableAO = (IF settings.enableAO THEN 1 ELSE 0)
            /\ uniforms.u_enableShadows = (IF settings.enableShadows THEN 1 ELSE 0)
    /\ pc = "swap" => draws = frames

\* a frame whose UI step moved the Yaw slider, drawn with the new basis
C6_Witness ==
    /\ pc = "swap"
    /\ uiEdit = "camYaw"
    /\ settings.camYaw = 15
    /\ uniforms.u_camPos = CameraPos(settings.camDistance, 15, settings.camPitch)
    /\ sent = ProtocolNames
    /\ frames = 2

\* C7: a frame is begun only while no close is requested; the loop is left
\* only on a close request, and then every frame begun has been drawn and
\* swapped; and main() returns 0 only after the vertex buffer, the vertex
\* array, the program, the UI and the window contexts are released.
C7_CloseEndsLoopAfterFrame ==
    /\ pc = "poll" => ~shouldClose
    /\ pc \in {"cleanup", "return"} =>
            (shouldClose /\ draws = frames /\ swaps = frames /\ frames >= 1)
    /\ pc = "return" => live = {}
    /\ exitCode = 0 =>
            /\ shouldClose /\ pc = "done"
            /\ live = {}
            /\ draws = frames /\ swaps = frames /\ frames >= 1

\* the escape key was seen in the second frame; main() has returned 0
C7_Witness ==
    /\ exitCode = 0
    /\ escDown
    /\ frames = 2
    /\ swaps = 2
    /\ live = {}

\* C8: a failed start-up step writes a diagnostic and ends main() with 1 at
\* once: no step is run after it, none is run again, and no frame is begun.
C8_StartupFailureIsFatal ==
    /\ exitCode = 1 => (pc = "done" /\ frames = 0 /\ Len(diag) = 1 /\ swaps = 0)
    /\ diag # <<>> => exitCode = 1
    /\ (pc \in {"setup", "loop"} \/ frames > 0) =>
            (diag = <<>> /\ exitCode # 1 /\ (pc \notin {"return", "done"} =>
                                             {"glfw", "window", "program"} \subseteq live))

\* the program did not link
C8_Witness ==
    /\ exitCode = 1
    /\ diag = <<"Error linking shader program">>
    /\ pc = "done"
    /\ frames = 0
    /\ live = {}

\* C9: at distance 4, yaw 0 and pitch 0 the camera is at (4,0,0) looking
\* along (-1,0,0), with up (0,1,0) and right (0,0,-1) or (0,0,1); the three
\* directions are unit vectors, perpendicular to one another.
C9_ReferenceBasis ==
    (Built /\ settings.camDistance = 40 /\ settings.camYaw = 0 /\ settings.camPitch = 0) =>
        /\ basis.pos = <<4000, 0, 0>>
        /\ basis.forward = <<-1000, 0, 0>>
        /\ basis.up = <<0, 1000, 0>>
        /\ basis.right \in {<<0, 0, -1000>>, <<0, 0, 1000>>}
        /\ Dot(basis.forward, basis.right) = 0
        /\ Dot(basis.forward, basis.up) = 0
        /\ Dot(basis.right, basis.up) = 0
        /\ Dot(basis.forward, basis.forward) = 1000
        /\ Dot(basis.right, basis.right) = 1000
        /\ Dot(basis.up, basis.up) = 1000

\* the first frame, at time 0, with the Pitch slider moved to 0
C9_Witness ==
    /\ pc = "draw"
    /\ settings.camDistance = 40 /\ settings.camYaw = 0 /\ settings.camPitch = 0
    /\ uniforms.u_camPos = <<4000, 0, 0>>
    /\ uniforms.u_camRight = <<0, 0, -1000>>

\* C10: the builder has a result for every camera position; when forward is
\* parallel to worldUp, or is itself the zero vector, right and up are the
\* zero vector, and the frame is uploaded and drawn like any other.
C10_DegenerateBasisIsZero ==
    pc # "builder" =>
        /\ basis.pos = ZeroVec => basis.forward = ZeroVec
        /\ (basis.forward[1] = 0 /\ basis.forward[3] = 0) =>
                (basis.right = ZeroVec /\ basis.up = ZeroVec)
        /\ \A i \in 1..3 : /\ basis.forward[i] \in -1000..1000
                            /\ basis.right[i] \in -1000..1000
                            /\ basis.up[i] \in -1001..1001
        /\ pc = "swap" =>
                /\ draws = 1
                /\ uniforms.u_camForward = basis.forward
                /\ uniforms.u_camRight = basis.right
                /\ uniforms.u_camUp = basis.up

\* the camera straight above the origin, its frame drawn
C10_Witness ==
    /\ pc = "swap"
    /\ basis.pos = <<0, 4000, 0>>
    /\ basis.forward = <<0, -1000, 0>>
    /\ basis.right = ZeroVec
    /\ basis.up = ZeroVec
    /\ uniforms.u_camRight = ZeroVec
    /\ draws = 1

====
